---- MODULE Spec2Model ----
(***************************************************************************)
(* Model of bud_learning's extract_book command (src/bud_learning/cli.py). *)
(*                                                                         *)
(* Strings are sequences of character codes, so that str.lower, str.upper, *)
(* str.strip, str.split, str.endswith, list.sort and "".join are computed  *)
(* as Python computes them.  Every path of a run shares the prefix         *)
(* "<directory>/", so a path is represented by its file name.              *)
(*                                                                         *)
(* The collaborators (converters, file reads, transcription provider) are  *)
(* a deterministic stub: the first time an outcome for a file is needed it *)
(* is chosen freely and remembered in `stub`; later uses (a duplicate list *)
(* entry, a second run) get the same outcome.  The output path is taken to *)
(* be writable and to lie in the parent directory (cli.py line 143).       *)
(***************************************************************************)
EXTENDS Integers, Sequences, FiniteSets, TLC

\* ---------------------------------------------------------------- bounds
MaxFiles == 3
MaxRuns == 2

\* ---------------------------------------------------- character strings
Comma == 44
Dot == 46

S_heic == <<104, 101, 105, 99>>
S_SEP == <<10, 10, 45, 45, 45, 10, 45, 45, 45, 10, 10>>
S_old == <<111, 108, 100>>

F_1jpg == <<49, 46, 106, 112, 103>>
F_2png == <<50, 46, 112, 110, 103>>
F_3heic == <<51, 46, 104, 101, 105, 99>>
F_0HEIC == <<48, 46, 72, 69, 73, 67>>
F_57 == <<53, 46, 55>>
\* the default output file name, "to_read.md"
F_out == <<116, 111, 95, 114, 101, 97, 100, 46, 109, 100>>

FileUniverse == {F_1jpg, F_2png, F_3heic, F_0HEIC, F_57}

\* "jpg,jpeg,png,heic" (the default), "jpg,JPG", "png, heic", "7,heic", "jpg,md"
E_default == <<106, 112, 103, 44, 106, 112, 101, 103, 44, 112, 110, 103, 44, 104, 101, 105, 99>>
E_jpgJPG == <<106, 112, 103, 44, 74, 80, 71>>
E_spaced == <<112, 110, 103, 44, 32, 104, 101, 105, 99>>
E_digit == <<55, 44, 104, 101, 105, 99>>
E_md == <<106, 112, 103, 44, 109, 100>>

ExtensionLists == {E_default, E_jpgJPG, E_spaced, E_digit, E_md}

\* ------------------------------------------------------ string functions
LowerChar(c) == IF c >= 65 /\ c <= 90 THEN c + 32 ELSE c
UpperChar(c) == IF c >= 97 /\ c <= 122 THEN c - 32 ELSE c

Lower(s) == [k \in 1..Len(s) |-> LowerChar(s[k])]
Upper(s) == [k \in 1..Len(s) |-> UpperChar(s[k])]

IsSpace(c) == c \in {32, 9, 10, 13, 11, 12}

RECURSIVE LStrip(_)
LStrip(s) == IF s # <<>> /\ IsSpace(Head(s)) THEN LStrip(Tail(s)) ELSE s

RECURSIVE RStrip(_)
RStrip(s) ==
  IF s # <<>> /\ IsSpace(s[Len(s)]) THEN RStrip(SubSeq(s, 1, Len(s) - 1)) ELSE s

Strip(s) == RStrip(LStrip(s))

RECURSIVE SplitAcc(_, _, _)
SplitAcc(s, sep, cur) ==
  IF s = <<>> THEN <<cur>>
  ELSE IF Head(s) = sep THEN <<cur>> \o SplitAcc(Tail(s), sep, <<>>)
  ELSE SplitAcc(Tail(s), sep, Append(cur, Head(s)))

Split(s, sep) == SplitAcc(s, sep, <<>>)

EndsWith(s, suf) ==
  Len(s) >= Len(suf) /\ SubSeq(s, Len(s) - Len(suf) + 1, Len(s)) = suf

RECURSIVE StrLess(_, _)
StrLess(a, b) ==
  IF a = <<>> THEN b # <<>>
  ELSE IF b = <<>> THEN FALSE
  ELSE IF Head(a) # Head(b) THEN Head(a) < Head(b)
  ELSE StrLess(Tail(a), Tail(b))

StrLeq(a, b) == a = b \/ StrLess(a, b)

RECURSIVE Insert(_, _)
Insert(x, sorted) ==
  IF sorted = <<>> THEN <<x>>
  ELSE IF StrLess(x, Head(sorted)) THEN <<x>> \o sorted
  ELSE <<Head(sorted)>> \o Insert(x, Tail(sorted))

RECURSIVE Sort(_)
Sort(q) == IF q = <<>> THEN <<>> ELSE Insert(Head(q), Sort(Tail(q)))

RECURSIVE Join(_)
Join(parts) == IF parts = <<>> THEN <<>> ELSE Head(parts) \o Join(Tail(parts))

\* ------------------------------------------------------------ discovery
\* glob "<directory>/*.<ext>": "*" does not match a leading dot.
GlobMatch(name, ext) ==
  /\ name # <<>>
  /\ name[1] # Dot
  /\ EndsWith(name, <<Dot>> \o ext)

\* The operating system lists a directory in an order of its own.
RECURSIVE SetToSeq(_)
SetToSeq(S) ==
  IF S = {} THEN <<>>
  ELSE LET x == CHOOSE y \in S : \A z \in S : StrLeq(z, y)
       IN <<x>> \o SetToSeq(S \ {x})

Glob(files, ext) == SetToSeq({f \in files : GlobMatch(f, ext)})

RECURSIVE Collect(_, _)
Collect(files, extensions) ==
  IF extensions = <<>> THEN <<>>
  ELSE LET ext == Strip(Head(extensions))
       IN Glob(files, Lower(ext)) \o Glob(files, Upper(ext))
            \o Collect(files, Tail(extensions))

Discovery(files, image_extensions_) ==
  Sort(Collect(files, Split(image_extensions_, Comma)))

\* a loop guard that forgets the early return
IsEmptyList_Never(l) == FALSE

IsEmptyList(l) == l = <<>>

IsHeic(img_path) == EndsWith(Lower(img_path), <<Dot>> \o S_heic)

\* ------------------------------------------------- stubbed collaborators
Steps == {"tmp", "sips", "magick", "read", "api"}
Unknown == [k \in Steps |-> "?"]

\* The text the transcription stub returns for an image.
Text(img_path) == img_path

OutcomeOf(ok) == IF ok THEN "ok" ELSE "fail"

\* ------------------------------------------------------- code fragments
\* list.insert(0, ...) instead of list.append(...)
AppendBlock_Prepend(fc, page_content) == <<page_content \o S_SEP>> \o fc

AppendBlock(fc, page_content) == Append(fc, page_content \o S_SEP)

\* open(..., "a") instead of open(..., "w")
WriteFile_Append(old, content) ==
  [exists |-> TRUE, content |-> old.content \o content]

WriteFile(old, content) == [exists |-> TRUE, content |-> content]

\* reporting len(full_content) instead of len(image_files)
ReportedCount_Written(files, fc) == Len(fc)

ReportedCount(files, fc) == Len(files)

\* a missing `continue` after the failed fallback converter
MagickFailTarget_FallThrough == "Transcribe"

MagickFailTarget == "Continue"

\* Path(directory, '..', output_file): the output lands in the parent.
OutputDir == "parent"

NoFile == [exists |-> FALSE, content |-> <<>>]
OldFile == [exists |-> TRUE, content |-> S_old]

\* ---------------------------------------------------------------- state
VARIABLES
  dirValid,          \* the directory exists and is a directory
  dirFiles,          \* names of the entries of the directory
  image_extensions,  \* the --image-extensions argument
  stub,              \* remembered outcomes of the collaborators, per file
  outFile,           \* <parent>/<output_file>
  tempFiles,         \* temporary .jpg files that exist
  tmpCreated,        \* number of temporary files ever created
  temp_jpg_path,     \* the temporary file of the current HEIC image
  run,               \* which invocation of the command this is
  firstOut,          \* output file as the first run left it
  outBefore,         \* output file when the current run started
  pc,                \* position in extract_book
  i,                 \* 1-based loop index
  image_files,
  full_content,
  log                \* observable events of the current run, in order

vars == <<dirValid, dirFiles, image_extensions, stub, outFile, tempFiles,
          tmpCreated, temp_jpg_path, run, firstOut, outBefore, pc, i,
          image_files, full_content, log>>

inputs == <<dirValid, image_extensions>>

Terminal == {"EndInvalid", "EndEmpty", "EndSuccess", "Aborted"}

Ev(e, n) == [ev |-> e, i |-> n]

Init ==
  /\ dirValid \in BOOLEAN
  /\ dirFiles \in {S \in SUBSET FileUniverse : Cardinality(S) <= MaxFiles}
  /\ image_extensions \in ExtensionLists
  /\ stub = [f \in FileUniverse \cup {F_out} |-> Unknown]
  /\ outFile \in {NoFile, OldFile}
  /\ tempFiles = {}
  /\ tmpCreated = 0
  /\ temp_jpg_path = 0
  /\ run = 1
  /\ firstOut = NoFile
  /\ outBefore = outFile
  /\ pc = "Start"
  /\ i = 1
  /\ image_files = <<>>
  /\ full_content = <<>>
  /\ log = <<>>

\* The stub answers `ok` for step k of file f, consistently with the past.
Decide(f, k, ok) ==
  /\ stub[f][k] \in {"?", OutcomeOf(ok)}
  /\ stub' = [stub EXCEPT ![f][k] = OutcomeOf(ok)]

\* `continue`, or falling off the end of the loop body
Continue(newlog) ==
  /\ i' = i + 1
  /\ pc' = "LoopHead"
  /\ log' = newlog

Goto(target, newlog) ==
  IF target = "Continue" THEN Continue(newlog)
  ELSE /\ pc' = target
       /\ i' = i
       /\ log' = newlog

\* ---------------------------------------------------------------- actions
CheckDirectory ==
  /\ pc = "Start"
  /\ \/ /\ ~dirValid
        /\ pc' = "EndInvalid"
        /\ log' = Append(log, Ev("error_directory", 0))
     \/ /\ dirValid
        /\ pc' = "Discovering"
        /\ log' = log
  /\ UNCHANGED <<inputs, dirFiles, stub, outFile, tempFiles, tmpCreated, temp_jpg_path,
                 run, firstOut, outBefore, i, image_files, full_content>>

Discover ==
  /\ pc = "Discovering"
  /\ image_files' = Discovery(dirFiles, image_extensions)
  /\ \/ /\ IsEmptyList(image_files')
        /\ pc' = "EndEmpty"
        /\ log' = Append(log, Ev("no_images", 0))
        /\ UNCHANGED <<i, full_content>>
     \/ /\ ~IsEmptyList(image_files')
        /\ pc' = "LoopHead"
        /\ i' = 1
        /\ full_content' = <<>>
        /\ log' = Append(log, Ev("found", Len(image_files')))
  /\ UNCHANGED <<inputs, dirFiles, stub, outFile, tempFiles, tmpCreated, temp_jpg_path,
                 run, firstOut, outBefore>>

LoopHead ==
  /\ pc = "LoopHead"
  /\ \/ /\ i <= Len(image_files)
        /\ IsHeic(image_files[i])
        /\ pc' = "MakeTemp"
        /\ log' = Append(log, Ev("processing", i))
     \/ /\ i <= Len(image_files)
        /\ ~IsHeic(image_files[i])
        /\ pc' = "ReadImage"
        /\ log' = Append(log, Ev("processing", i))
     \/ /\ i > Len(image_files)
        /\ pc' = "Aggregating"
        /\ log' = log
  /\ UNCHANGED <<inputs, dirFiles, stub, outFile, tempFiles, tmpCreated, temp_jpg_path,
                 run, firstOut, outBefore, i, image_files, full_content>>

MakeTemp ==
  /\ pc = "MakeTemp"
  /\ \E ok \in BOOLEAN :
       /\ Decide(image_files[i], "tmp", ok)
       /\ \/ /\ ok
             /\ tmpCreated' = tmpCreated + 1
             /\ temp_jpg_path' = tmpCreated + 1
             /\ tempFiles' = tempFiles \cup {tmpCreated + 1}
             /\ Goto("Sips", log)
          \/ /\ ~ok
             /\ UNCHANGED <<tmpCreated, temp_jpg_path, tempFiles>>
             /\ Continue(Append(log, Ev("error_converting", i)))
  /\ UNCHANGED <<inputs, dirFiles, outFile, run, firstOut, outBefore, image_files,
                 full_content>>

RunSips ==
  /\ pc = "Sips"
  /\ \E ok \in BOOLEAN :
       /\ Decide(image_files[i], "sips", ok)
       /\ \/ ok /\ Goto("ReadConverted", log)
          \/ ~ok /\ Goto("Magick", log)
  /\ UNCHANGED <<inputs, dirFiles, outFile, tempFiles, tmpCreated, temp_jpg_path, run,
                 firstOut, outBefore, image_files, full_content>>

RunMagick ==
  /\ pc = "Magick"
  /\ \E ok \in BOOLEAN :
       /\ Decide(image_files[i], "magick", ok)
       /\ \/ ok /\ Goto("ReadConverted", log)
          \/ ~ok /\ Goto(MagickFailTarget, Append(log, Ev("error_no_converter", i)))
  /\ UNCHANGED <<inputs, dirFiles, outFile, tempFiles, tmpCreated, temp_jpg_path, run,
                 firstOut, outBefore, image_files, full_content>>

ReadConverted ==
  /\ pc = "ReadConverted"
  /\ \E ok \in BOOLEAN :
       /\ Decide(image_files[i], "read", ok)
       /\ \/ ok /\ Goto("Unlink", log)
          \/ ~ok /\ Continue(Append(log, Ev("error_converting", i)))
  /\ UNCHANGED <<inputs, dirFiles, outFile, tempFiles, tmpCreated, temp_jpg_path, run,
                 firstOut, outBefore, image_files, full_content>>

Unlink ==
  /\ pc = "Unlink"
  /\ tempFiles' = tempFiles \ {temp_jpg_path}
  /\ Goto("Transcribe", log)
  /\ UNCHANGED <<inputs, dirFiles, stub, outFile, tmpCreated, temp_jpg_path, run,
                 firstOut, outBefore, image_files, full_content>>

ReadImage ==
  /\ pc = "ReadImage"
  /\ \E ok \in BOOLEAN :
       /\ Decide(image_files[i], "read", ok)
       /\ \/ ok /\ Goto("Transcribe", log)
          \/ ~ok /\ Goto("Aborted", Append(log, Ev("unhandled_exception", i)))
  /\ UNCHANGED <<inputs, dirFiles, outFile, tempFiles, tmpCreated, temp_jpg_path, run,
                 firstOut, outBefore, image_files, full_content>>

Transcribe ==
  /\ pc = "Transcribe"
  /\ \E ok \in BOOLEAN :
       /\ Decide(image_files[i], "api", ok)
       /\ \/ /\ ok
             /\ full_content' = AppendBlock(full_content, Text(image_files[i]))
             /\ Goto("Sleep", Append(log, Ev("call", i)))
          \/ /\ ~ok
             /\ full_content' = full_content
             /\ Continue(
                     Append(Append(log, Ev("call", i)), Ev("error_processing", i)))
  /\ UNCHANGED <<inputs, dirFiles, outFile, tempFiles, tmpCreated, temp_jpg_path, run,
                 firstOut, outBefore, image_files>>

Sleep ==
  /\ pc = "Sleep"
  /\ Continue(Append(log, Ev("sleep", i)))
  /\ UNCHANGED <<inputs, dirFiles, stub, outFile, tempFiles, tmpCreated, temp_jpg_path,
                 run, firstOut, outBefore, image_files, full_content>>

WriteOutput ==
  /\ pc = "Aggregating"
  /\ outFile' = WriteFile(outFile, Join(full_content))
  /\ log' = Append(Append(log, Ev("write", 0)),
                   Ev("success", ReportedCount(image_files, full_content)))
  /\ pc' = "EndSuccess"
  /\ dirFiles' = IF OutputDir = "directory" THEN dirFiles \cup {F_out} ELSE dirFiles
  /\ UNCHANGED <<inputs, stub, tempFiles, tmpCreated, temp_jpg_path, run,
                 firstOut, outBefore, i, image_files, full_content>>

\* The user invokes the command again with the same arguments.
Rerun ==
  /\ pc \in Terminal
  /\ run < MaxRuns
  /\ run' = run + 1
  /\ firstOut' = IF run = 1 THEN outFile ELSE firstOut
  /\ outBefore' = outFile
  /\ pc' = "Start"
  /\ i' = 1
  /\ image_files' = <<>>
  /\ full_content' = <<>>
  /\ log' = <<>>
  /\ UNCHANGED <<inputs, dirFiles, stub, outFile, tempFiles, tmpCreated, temp_jpg_path>>

Next ==
  \/ CheckDirectory
  \/ Discover
  \/ LoopHead
  \/ MakeTemp
  \/ RunSips
  \/ RunMagick
  \/ ReadConverted
  \/ Unlink
  \/ ReadImage
  \/ Transcribe
  \/ Sleep
  \/ WriteOutput
  \/ Rerun

Spec == Init /\ [][Next]_vars

\* ------------------------------------------------------------ vocabulary
N == Len(image_files)

Calls == SelectSeq(log, LAMBDA e : e.ev = "call")
Processed == SelectSeq(log, LAMBDA e : e.ev = "processing")
Writes == SelectSeq(log, LAMBDA e : e.ev = "write")

Positions(e) == {p \in 1..Len(log) : log[p].ev = e}

\* The HEIC conversion of f produced bytes, according to the stub.
ConvertedOK(f) ==
  /\ stub[f]["tmp"] = "ok"
  /\ \/ stub[f]["sips"] = "ok"
     \/ stub[f]["sips"] = "fail" /\ stub[f]["magick"] = "ok"
  /\ stub[f]["read"] = "ok"

\* Conversion (or plain read) and transcription of f both succeeded.
Succeeded(f) ==
  /\ IF IsHeic(f) THEN ConvertedOK(f) ELSE stub[f]["read"] = "ok"
  /\ stub[f]["api"] = "ok"

RECURSIVE ExpectedOutput(_)
ExpectedOutput(files) ==
  IF files = <<>> THEN <<>>
  ELSE (IF Succeeded(Head(files)) THEN Text(Head(files)) \o S_SEP ELSE <<>>)
         \o ExpectedOutput(Tail(files))

\* ------------------------------------------------------------------- C1
\* C1: when a run reaches the output write, the file holds exactly the
\* blocks text_i + separator of the images whose conversion and
\* transcription succeeded, once each, in discovery order.
C1_OutputIsSuccessesInOrder ==
  pc = "EndSuccess" =>
    /\ outFile.exists
    /\ outFile.content = ExpectedOutput(image_files)

\* A finished run of three images: success, failure, success.
C1_Witness ==
  /\ pc = "EndSuccess"
  /\ N = 3
  /\ Succeeded(image_files[1])
  /\ ~Succeeded(image_files[2])
  /\ Succeeded(image_files[3])
  /\ Len(full_content) = 2

\* ------------------------------------------------------------------- C2
\* C2: a failure of any single image (read, conversion, transcription)
\* never aborts the batch: a run that discovered images ends by writing
\* the output.
C2_PerItemErrorsIsolated ==
  (pc \in Terminal /\ image_files # <<>>) => pc = "EndSuccess"

\* ------------------------------------------------------------------- C3
\* C3: between any two consecutive transcription-provider calls of a run
\* there is at least one sleep.
C3_SleepBetweenCalls ==
  \A a, b \in Positions("call") :
    a < b => \E c \in Positions("sleep") : a < c /\ c < b

\* ------------------------------------------------------------------- C4
\* C4: at every loop-iteration boundary and at the end of the run, no
\* temporary file exists.
C4_NoTempFileLeft ==
  (pc = "LoopHead" \/ pc \in Terminal) => tempFiles = {}

\* ------------------------------------------------------------------- C5
\* C5: the discovered list is sorted lexicographically and contains each
\* path at most once.
C5_DiscoverySortedNoDuplicates ==
  \A a, b \in 1..N : a < b => StrLess(image_files[a], image_files[b])

\* ------------------------------------------------------------------- C6
\* C6: a run whose directory is invalid, or in which no file matches,
\* reports the condition and stops, having called the provider zero times
\* and left the output file as it was.
C6_EarlyExitLeavesNoTrace ==
  (pc \notin {"Start", "Discovering"} /\ image_files = <<>>) =>
    /\ pc = IF dirValid THEN "EndEmpty" ELSE "EndInvalid"
    /\ log = IF dirValid THEN <<Ev("no_images", 0)>>
                         ELSE <<Ev("error_directory", 0)>>
    /\ Calls = <<>>
    /\ Writes = <<>>
    /\ outFile = outBefore

\* A directory with entries, none of which matches, next to an existing
\* output file.
C6_Witness ==
  /\ pc = "EndEmpty"
  /\ dirFiles # {}
  /\ outFile = OldFile

\* ------------------------------------------------------------------- C7
\* C7: a run on a valid directory ends either with no files found, or
\* after processing images 1..N once each in increasing order and then
\* writing once; the loop is left in no other way.
C7_RunStateMachine ==
  (pc \in Terminal /\ dirValid) =>
    \/ pc = "EndEmpty" /\ image_files = <<>>
    \/ /\ pc = "EndSuccess"
       /\ Processed = [k \in 1..N |-> Ev("processing", k)]
       /\ Len(Writes) = 1

\* ------------------------------------------------------------------- C8
\* C8: a second run with the same inputs and the same stub leaves the
\* output file exactly as the first run left it.
C8_Idempotent ==
  (run >= 2 /\ pc \in Terminal) => outFile = firstOut

\* The second run finished over the non-empty output of the first, with a
\* skipped image in between.
C8_Witness ==
  /\ run = 2
  /\ pc = "EndSuccess"
  /\ outFile.content # <<>>
  /\ outBefore = outFile
  /\ \E k \in 1..N : ~Succeeded(image_files[k])

\* ------------------------------------------------------------------- C9
\* C9: the provider is called at most once per list entry, in increasing
\* index order (a failed call is not re-issued), at most N times, and
\* never for a HEIC image whose conversion failed.
C9_NoRetry ==
  /\ \A a, b \in 1..Len(Calls) : a < b => Calls[a].i < Calls[b].i
  /\ Len(Calls) <= N
  /\ \A a \in 1..Len(Calls) :
       /\ Calls[a].i \in 1..N
       /\ IsHeic(image_files[Calls[a].i]) => ConvertedOK(image_files[Calls[a].i])

\* A finished run with a failed call that was followed by a later call,
\* and a HEIC image both converters failed on.
C9_Witness ==
  /\ pc = "EndSuccess"
  /\ \E a, b \in 1..Len(Calls) :
       /\ a < b
       /\ stub[image_files[Calls[a].i]]["api"] = "fail"
  /\ \E k \in 1..N :
       /\ IsHeic(image_files[k])
       /\ stub[image_files[k]]["magick"] = "fail"

\* ------------------------------------------------------------------ C10
\* C10: when the loop finishes, the output file is written exactly once,
\* after the last image, and the run reports the discovered count N; if
\* every image failed the file is overwritten with empty content.
C10_WriteOnceReportDiscovered ==
  pc = "EndSuccess" =>
    /\ Positions("write") = {Len(log) - 1}
    /\ log[Len(log)] = Ev("success", N)
    /\ {e.i : e \in {Processed[k] : k \in 1..Len(Processed)}} = 1..N
    /\ outFile.exists
    /\ full_content = <<>> => outFile.content = <<>>

\* Every one of two or more images failed and an older output existed.
C10_Witness ==
  /\ pc = "EndSuccess"
  /\ N >= 2
  /\ full_content = <<>>
  /\ outBefore = OldFile
  /\ outFile = [exists |-> TRUE, content |-> <<>>]

====
